---- MODULE Spec2Model ----
(***************************************************************************)
(* A model of the HARHN forecasting network (models/HARHN.py) and of       *)
(* make_model (run_model.py).                                              *)
(*                                                                         *)
(* Tensors are nested sequences (1-based), so a tensor's shape is read off *)
(* the data.  Real numbers are fixed-point integers: the integer v stands  *)
(* for the real v / SCALE.  tanh and sigmoid are their piecewise-linear    *)
(* forms; softmax weights are exact rationals <<numerator, denominator>>.   *)
(***************************************************************************)
EXTENDS Integers, Sequences, FiniteSets, TLC

\* ------------------------------------------------------------------ bounds
MaxBatch == 2
MaxUnits == 2
MaxDepth == 2
MaxLookback == 2
MaxFeats == 1
MaxKernel == 3
MaxConvLayers == 2
MaxParamSeed == 1
MaxInputSeed == 2
SCALE == 4
ExpBits == 6

\* ------------------------------------------------------- fixed-point reals
Clamp(v, lo, hi) == IF v < lo THEN lo ELSE IF v > hi THEN hi ELSE v

FxMul(a, b) == (a * b) \div SCALE

\* torch.tanh, piecewise linear and odd: slope 1 up to 1/2, slope 1/2 up to
\* 3/2, and 1 beyond
TanhPos(a) ==
    IF 2 * a <= SCALE THEN a
    ELSE IF 2 * a <= 3 * SCALE THEN (2 * a + SCALE) \div 4
    ELSE SCALE

Tanh(v) == IF v >= 0 THEN TanhPos(v) ELSE -TanhPos(-v)

\* torch.sigmoid, piecewise linear: 0.2 v + 0.5 clipped to [0, 1]
Sigmoid(v) == Clamp((2 * v + 5 * SCALE) \div 10, 0, SCALE)

\* the constant -2.5 of init_gates_closed
ClosedBias == -((5 * SCALE) \div 2)

\* the sequence <<Op(1), ..., Op(n)>>, built strictly
RECURSIVE Strict(_, _)
Strict(f, n) == IF n <= 0 THEN <<>> ELSE Append(Strict(f, n - 1), f[n])

Tabulate(n, Op(_)) == Strict([i \in 1..n |-> Op(i)], n)

RECURSIVE SumSeq(_)
SumSeq(q) == IF q = <<>> THEN 0 ELSE Head(q) + SumSeq(Tail(q))

\* elementwise operations on (batch x n) matrices
MatAdd(a, b) == Tabulate(Len(a), LAMBDA i : Tabulate(Len(a[i]), LAMBDA j : a[i][j] + b[i][j]))
MatMul(a, b) == Tabulate(Len(a), LAMBDA i : Tabulate(Len(a[i]), LAMBDA j : FxMul(a[i][j], b[i][j])))
MatOneMinus(a) == Tabulate(Len(a), LAMBDA i : Tabulate(Len(a[i]), LAMBDA j : SCALE - a[i][j]))
MatTanh(a) == Tabulate(Len(a), LAMBDA i : Tabulate(Len(a[i]), LAMBDA j : Tanh(a[i][j])))
MatSigmoid(a) == Tabulate(Len(a), LAMBDA i : Tabulate(Len(a[i]), LAMBDA j : Sigmoid(a[i][j])))

\* torch.zeros(batch, n)
Zeros(batch, n) == Tabulate(batch, LAMBDA i : Tabulate(n, LAMBDA j : 0))

\* ----------------------------------------------------------------- nn.Linear
\* The default initialiser draws the parameters at random; a seed names one
\* draw.  Weights lie in [-1, 1], biases in [-1/2, 1/2].
InitWeight(seed, id, i, j) ==
    (((seed * 7 + id * 3 + i * 2 + j * 11 + i * j) % 5) - 2) * (SCALE \div 2)
InitBias(seed, id, i) == (((seed * 5 + id * 7 + i * 2) % 3) - 1) * (SCALE \div 2)

Linear(seed, id, n_in, n_out, bias) ==
    [W |-> Tabulate(n_out, LAMBDA i : Tabulate(n_in, LAMBDA j : InitWeight(seed, id, i, j))),
     b |-> Tabulate(n_out, LAMBDA i : IF bias THEN InitBias(seed, id, i) ELSE 0)]

\* y = x W^T + b, applied to every row of a (batch x n_in) matrix
LinearForward(lin, x) ==
    Tabulate(Len(x), LAMBDA r : Tabulate(Len(lin.W), LAMBDA i :
        lin.b[i] + SumSeq(Tabulate(Len(lin.W[i]), LAMBDA j : FxMul(lin.W[i][j], x[r][j])))))

\* layer.bias = nn.Parameter(torch.Tensor([-2.5] * n_units))
WithClosedBias(lin, n_units) == [lin EXCEPT !.b = Tabulate(n_units, LAMBDA i : ClosedBias)]

\* a layer the constructor did not create (W_C, R_C when gates are coupled;
\* HSG when use_hsg is off)
NoLayer == [W |-> <<>>, b |-> <<>>]

\* ------------------------------------------------------------------ HSGLayer
NewHSGLayer(seed, id, n_units, init_gates_closed) ==
    [W_R |-> Linear(seed, id, n_units, n_units, FALSE),
     W_F |-> IF init_gates_closed
             THEN WithClosedBias(Linear(seed, id + 1, n_units, n_units, TRUE), n_units)
             ELSE Linear(seed, id + 1, n_units, n_units, TRUE)]

\* g = sigmoid(W_R(s_prime_tm1) + W_F(s_l_t))
HSGGate(hsg, s_l_t, s_prime_tm1) ==
    MatSigmoid(MatAdd(LinearForward(hsg.W_R, s_prime_tm1), LinearForward(hsg.W_F, s_l_t)))

\* a slip that swaps the two blended states
HSGBlendSwapped(g, s_l_t, s_prime_tm1) ==
    MatAdd(MatMul(g, s_l_t), MatMul(MatOneMinus(g), s_prime_tm1))

\* s_prime_t = g*s_prime_tm1 + (1 - g)*s_l_t
HSGBlend(g, s_l_t, s_prime_tm1) ==
    MatAdd(MatMul(g, s_prime_tm1), MatMul(MatOneMinus(g), s_l_t))

HSGForward(hsg, s_l_t, s_prime_tm1) ==
    HSGBlend(HSGGate(hsg, s_l_t, s_prime_tm1), s_l_t, s_prime_tm1)

\* ------------------------------------------------------------------- RHNCell
\* parameter ids of the layers of one cell, offset by the cell's base id
NewRHNCell(seed, base, in_feats, n_units, rec_depth, couple_gates, use_hsg, init_gates_closed) ==
    LET depths == IF rec_depth > 0 THEN rec_depth ELSE 0
        gate(l, id) == IF init_gates_closed
                       THEN WithClosedBias(Linear(seed, base + id + 10 * l, n_units, n_units, TRUE),
                                           n_units)
                       ELSE Linear(seed, base + id + 10 * l, n_units, n_units, TRUE)
    IN  [rec_depth |-> rec_depth,
         in_feats |-> in_feats,
         n_units |-> n_units,
         couple_gates |-> couple_gates,
         use_HSG |-> use_hsg,
         W_H |-> Linear(seed, base + 1, in_feats, n_units, FALSE),
         W_T |-> Linear(seed, base + 2, in_feats, n_units, FALSE),
         W_C |-> IF ~couple_gates THEN Linear(seed, base + 3, in_feats, n_units, FALSE)
                 ELSE NoLayer,
         R_H |-> Tabulate(depths, LAMBDA l : Linear(seed, base + 4 + 10 * l, n_units, n_units, TRUE)),
         R_T |-> Tabulate(depths, LAMBDA l : gate(l, 5)),
         R_C |-> IF ~couple_gates THEN Tabulate(depths, LAMBDA l : gate(l, 6)) ELSE <<>>,
         HSG |-> IF use_hsg THEN NewHSGLayer(seed, base + 7, n_units, init_gates_closed)
                 ELSE [W_R |-> NoLayer, W_F |-> NoLayer]]

\* one pass of the body of `for l in range(self.rec_depth)` (l is 0-based)
CellDepth(cell, x, s, l) ==
    LET \* W(x) + R[l](s) at the first depth, R[l](s) alone at the others
        first(W, r) == IF l = 0 THEN MatAdd(LinearForward(W, x), r) ELSE r
        pre(W, R) == first(W, LinearForward(R[l + 1], s))
        new_s(h_l_t, t_l_t, c_l_t) ==
            IF ~cell.couple_gates
            THEN MatAdd(MatMul(h_l_t, t_l_t), MatMul(c_l_t, s))
            ELSE MatAdd(MatMul(h_l_t, t_l_t), MatMul(MatOneMinus(t_l_t), s))
    IN  new_s(MatTanh(pre(cell.W_H, cell.R_H)),
              MatSigmoid(pre(cell.W_T, cell.R_T)),
              IF ~cell.couple_gates THEN MatSigmoid(pre(cell.W_C, cell.R_C)) ELSE <<>>)

RECURSIVE CellLoop(_, _, _, _, _)
CellLoop(cell, x, s, l, preds) ==
    IF l >= cell.rec_depth
    THEN [s |-> s, preds |-> preds]
    ELSE LET next(s2) == CellLoop(cell, x, s2, l + 1, Append(preds, s2))
         IN  next(CellDepth(cell, x, s, l))

Front(q) == SubSeq(q, 1, Len(q) - 1)

Raised(err) == [ok |-> FALSE, error |-> err, s |-> <<>>, preds |-> <<>>]

\* a slip that appends the gated state without dropping the last entry
CellHSGTailNoPop(cell, r, s_prime_tm1) ==
    LET put(s2) == [ok |-> TRUE, error |-> "", s |-> s2, preds |-> Append(r.preds, s2)]
    IN  put(HSGForward(cell.HSG, r.s, s_prime_tm1))

\* lines 70-73: s = self.HSG(s, s_prime_tm1); preds.pop(); preds.append(s)
CellHSGTail(cell, r, s_prime_tm1) ==
    LET put(s2) == [ok |-> TRUE, error |-> "", s |-> s2,
                    preds |-> Append(Front(r.preds), s2)]
    IN  IF r.preds = <<>>
        THEN Raised("IndexError")
        ELSE put(HSGForward(cell.HSG, r.s, s_prime_tm1))

\* RHNCell.forward: the result is (s, preds) with preds of shape
\* (rec_depth, batch, n_units); torch.stack of an empty list raises.
RHNCellForward(cell, x, s) ==
    LET tail(r) == IF cell.use_HSG
                   THEN CellHSGTail(cell, r, s)
                   ELSE [ok |-> TRUE, error |-> "", s |-> r.s, preds |-> r.preds]
        stacked(out) == IF out.ok /\ out.preds = <<>> THEN Raised("RuntimeError") ELSE out
    IN  stacked(tail(CellLoop(cell, x, s, 0, <<>>)))

\* --------------------------------------------------------------- tensor ops
Shape3(t) == <<Len(t), Len(t[1]), Len(t[1][1])>>
Shape4(t) == <<Len(t), Len(t[1]), Len(t[1][1]), Len(t[1][1][1])>>

\* tensor.permute(p) for p a 0-based tuple of axes: axis k of the result is
\* axis p[k] of the argument
Permute3(t, p) ==
    LET sh == Shape3(t)
        src(o) == Tabulate(3, LAMBDA d : o[CHOOSE k \in 1..3 : p[k] = d - 1])
        at(i) == t[i[1]][i[2]][i[3]]
    IN  Tabulate(sh[p[1] + 1], LAMBDA a : Tabulate(sh[p[2] + 1], LAMBDA b :
            Tabulate(sh[p[3] + 1], LAMBDA c : at(src(<<a, b, c>>)))))

Permute4(t, p) ==
    LET sh == Shape4(t)
        src(o) == Tabulate(4, LAMBDA d : o[CHOOSE k \in 1..4 : p[k] = d - 1])
        at(i) == t[i[1]][i[2]][i[3]][i[4]]
    IN  Tabulate(sh[p[1] + 1], LAMBDA a : Tabulate(sh[p[2] + 1], LAMBDA b :
            Tabulate(sh[p[3] + 1], LAMBDA c : Tabulate(sh[p[4] + 1], LAMBDA d :
                at(src(<<a, b, c, d>>))))))

\* ------------------------------------------------------------ nn.BatchNorm1d
ISqrt(n) == CHOOSE r \in 0..n : r * r <= n /\ (r + 1) * (r + 1) > n

\* A freshly built layer is in training mode with weight 1 and bias 0: each
\* feature is normalised by the mean and the biased variance taken over the
\* batch.  eps only keeps the denominator positive.
BatchNorm(m) ==
    LET feature(j) == Tabulate(Len(m), LAMBDA b : m[b][j])
        mean(q) == SumSeq(q) \div Len(q)
        var(q, mu) == SumSeq(Tabulate(Len(q), LAMBDA b : FxMul(q[b] - mu, q[b] - mu))) \div Len(q)
        std(root) == IF root = 0 THEN 1 ELSE root
        scaled(q, mu, sigma) == Tabulate(Len(q), LAMBDA b : ((q[b] - mu) * SCALE) \div sigma)
        centred(q, mu) == scaled(q, mu, std(ISqrt(var(q, mu) * SCALE)))
        normalised(q) == centred(q, mean(q))
        rows(cols) == Tabulate(Len(m), LAMBDA b : Tabulate(Len(cols), LAMBDA j : cols[j][b]))
    IN  rows(Tabulate(Len(m[1]), LAMBDA j : normalised(feature(j))))

\* ----------------------------------------------------------------------- RHN
\* RHN.__init__; `assert rec_depth > 0` is the first statement after super()
NewRHN(seed, base, in_feats, n_units, rec_depth, couple_gates, use_hsg, init_gates_closed, use_batch_norm) ==
    IF ~(rec_depth > 0)
    THEN [ok |-> FALSE, error |-> "AssertionError"]
    ELSE [ok |-> TRUE, error |-> "",
          rec_depth |-> rec_depth,
          in_feats |-> in_feats,
          n_units |-> n_units,
          init_gates_closed |-> init_gates_closed,
          couple_gates |-> couple_gates,
          use_HSG |-> use_hsg,
          use_batch_norm |-> use_batch_norm,
          RHNCell |-> NewRHNCell(seed, base, in_feats, n_units, rec_depth, couple_gates,
                                 use_hsg, init_gates_closed)]

\* the locals of RHN.forward before the loop
RHNStart(rhn, x) ==
    [x |-> x, t |-> 0, s |-> Zeros(Len(x), rhn.n_units), preds |-> <<>>,
     highway_states |-> <<>>, pc |-> "loop", error |-> ""]

\* x[:, t, :] for a 0-based t
TimeSlice(x, t) == Tabulate(Len(x), LAMBDA b : x[b][t + 1])

\* a slip that normalises whatever the flag says
RHNNormaliseAlways(rhn, m) == BatchNorm(m)

\* lines 101-105: bn_x / bn_s when use_batch_norm, the identity otherwise
RHNNormalise(rhn, m) == IF rhn.use_batch_norm THEN BatchNorm(m) ELSE m

\* one pass of the body of `for t in range(x.shape[1])`; BatchNorm1d in
\* training mode raises on a batch of one
RHNLoopBody(rhn, r) ==
    LET after(c) ==
            IF ~c.ok
            THEN [r EXCEPT !.pc = "raised", !.error = c.error]
            ELSE [r EXCEPT !.t = @ + 1, !.s = c.s, !.preds = Append(@, c.s),
                           !.highway_states = Append(@, c.preds),
                           !.pc = IF r.t + 1 < Len(r.x[1]) THEN "loop" ELSE "stack"]
    IN  IF rhn.use_batch_norm /\ Len(r.x) = 1
        THEN [r EXCEPT !.pc = "raised", !.error = "ValueError"]
        ELSE after(RHNCellForward(rhn.RHNCell, RHNNormalise(rhn, TimeSlice(r.x, r.t)),
                                  RHNNormalise(rhn, r.s)))

\* a slip in the axis order: (batch, units, T, depth)
RHNPermuteHighwayUnitsFirst(highway_states) == Permute4(highway_states, <<2, 3, 0, 1>>)

\* line 112: highway_states.permute(2, 0, 3, 1) of the (T, depth, batch, units) stack
RHNPermuteHighway(highway_states) == Permute4(highway_states, <<2, 0, 3, 1>>)

\* lines 109-115: stack and permute the two lists, return (out, highway_states)
RHNReturn(rhn, r) ==
    [r EXCEPT !.preds = Permute3(r.preds, <<1, 0, 2>>),
              !.highway_states = RHNPermuteHighway(r.highway_states),
              !.pc = "done"]

RECURSIVE RHNRun(_, _)
RHNRun(rhn, r) ==
    IF r.pc = "loop" THEN RHNRun(rhn, RHNLoopBody(rhn, r))
    ELSE IF r.pc = "stack" THEN RHNReturn(rhn, r)
    ELSE r

\* RHN.forward as a whole
RHNForward(rhn, x) == RHNRun(rhn, RHNStart(rhn, x))

\* ----------------------------------------------------------------- ConvBlock
\* Python's int() of n/2: truncation toward zero
IntHalf(n) == IF n >= 0 THEN n \div 2 ELSE -((-n) \div 2)

\* a slip that drops the `+ 1`: ((lin - 1)*stride + dilation*(kernel - 1) - lin) / 2
CalcPaddingNoPlusOne(lin, kernel, stride, dilation) ==
    IntHalf((lin - 1) * stride + dilation * (kernel - 1) - lin)

\* ConvBlock._calc_padding
CalcPadding(lin, kernel, stride, dilation) ==
    IntHalf((lin - 1) * stride + 1 + dilation * (kernel - 1) - lin)

\* ConvBlock.__init__: nn.Conv1d(in_channels, n_filters, filter_size, padding)
\* has weight[o][c][j] and bias[o]; nn.AdaptiveMaxPool1d(timesteps)
NewConvBlock(seed, id, timesteps, in_channels, n_filters, filter_size) ==
    [padding |-> CalcPadding(timesteps, filter_size, 1, 1),
     kernel |-> filter_size,
     W |-> Tabulate(n_filters, LAMBDA o : Tabulate(in_channels, LAMBDA c :
               Tabulate(filter_size, LAMBDA j : InitWeight(seed, id + c, o, j)))),
     b |-> Tabulate(n_filters, LAMBDA o : InitBias(seed, id, o)),
     maxpool |-> timesteps]

\* nn.Conv1d with stride 1 and dilation 1 on a (batch, channels, L) tensor: the
\* input is zero-padded by `padding` on both sides; the result has
\* L + 2*padding - (kernel - 1) timesteps
Conv1d(block, x) ==
    LET L == Len(x[1][1])
        Lout == L + 2 * block.padding - (block.kernel - 1)
        pad(b, c, i) == IF i >= 1 /\ i <= L THEN x[b][c][i] ELSE 0
    IN  Tabulate(Len(x), LAMBDA b : Tabulate(Len(block.W), LAMBDA o : Tabulate(Lout, LAMBDA t :
            block.b[o] + SumSeq(Tabulate(Len(block.W[o]), LAMBDA c :
                SumSeq(Tabulate(block.kernel, LAMBDA j :
                    FxMul(block.W[o][c][j], pad(b, c, t + j - 1 - block.padding)))))))))

Relu(x) ==
    Tabulate(Len(x), LAMBDA b : Tabulate(Len(x[b]), LAMBDA c : Tabulate(Len(x[b][c]), LAMBDA t :
        IF x[b][c][t] > 0 THEN x[b][c][t] ELSE 0)))

RECURSIVE MaxSeq(_)
MaxSeq(q) == IF Len(q) = 1 THEN q[1]
             ELSE LET m == MaxSeq(Tail(q)) IN IF Head(q) > m THEN Head(q) ELSE m

CeilDiv(a, b) == (a + b - 1) \div b

\* nn.AdaptiveMaxPool1d(n): output i (0-based) is the maximum of the inputs
\* floor(i*L/n) .. ceil((i+1)*L/n) - 1
AdaptiveMaxPool1d(n, x) ==
    LET L == Len(x[1][1])
    IN  Tabulate(Len(x), LAMBDA b : Tabulate(Len(x[b]), LAMBDA c : Tabulate(n, LAMBDA i :
            MaxSeq(SubSeq(x[b][c], ((i - 1) * L) \div n + 1, CeilDiv(i * L, n))))))

\* ConvBlock.forward.  Conv1d raises when the padded input is shorter than the
\* kernel.
ConvBlockForward(block, x) ==
    LET xc == Permute3(x, <<0, 2, 1>>)
    IN  IF Len(xc[1][1]) + 2 * block.padding < block.kernel
        THEN [ok |-> FALSE, error |-> "RuntimeError", x |-> <<>>]
        ELSE [ok |-> TRUE, error |-> "",
              x |-> Permute3(AdaptiveMaxPool1d(block.maxpool, Relu(Conv1d(block, xc))),
                             <<0, 2, 1>>)]

\* --------------------------------------------------------------------- HARHN
\* nn.Linear applied to the last axis of a (batch, T, n) tensor
Linear3(lin, x) == Tabulate(Len(x), LAMBDA b : LinearForward(lin, x[b]))

\* the default of HARHN's filter_size
DefaultFilterSize == 5

\* HARHN.__init__: `assert n_conv_layers > 0`, then the layers in source order;
\* RHN's own assert fires on rec_depth while RHNEncoder is built
NewHARHN(seed, n_conv_layers, lookback, in_feats, target_feats, n_units_enc, n_units_dec, enc_input_size, rec_depth, n_filters, filter_size) ==
    LET encoder == NewRHN(seed, 100, enc_input_size, n_units_enc, rec_depth, TRUE, FALSE,
                          FALSE, FALSE)
    IN  IF ~(n_conv_layers > 0)
        THEN [ok |-> FALSE, error |-> "AssertionError"]
        ELSE IF ~encoder.ok
        THEN [ok |-> FALSE, error |-> encoder.error]
        ELSE [ok |-> TRUE, error |-> "",
              n_convs |-> n_conv_layers,
              n_units_enc |-> n_units_enc,
              n_units_dec |-> n_units_dec,
              rec_depth |-> rec_depth,
              T |-> lookback,
              convs |-> Tabulate(n_conv_layers, LAMBDA i :
                           NewConvBlock(seed, 200 + 10 * i, lookback,
                                        IF i = 1 THEN in_feats ELSE n_filters,
                                        n_filters, filter_size)),
              conv_to_enc |-> Linear(seed, 300, n_filters, enc_input_size, TRUE),
              RHNEncoder |-> encoder,
              RHNDecoder |-> NewRHNCell(seed, 400, target_feats, n_units_dec, rec_depth,
                                        TRUE, FALSE, FALSE),
              T_k |-> Tabulate(rec_depth, LAMBDA k :
                          Linear(seed, 500 + k, n_units_dec, n_units_enc, FALSE)),
              U_k |-> Tabulate(rec_depth, LAMBDA k :
                          Linear(seed, 600 + k, n_units_enc, n_units_enc, TRUE)),
              v_k |-> Tabulate(rec_depth, LAMBDA k : Linear(seed, 700 + k, n_units_enc, 1, TRUE)),
              W_tilda |-> Linear(seed, 800, target_feats, target_feats, FALSE),
              V_tilda |-> Linear(seed, 801, rec_depth * n_units_enc, target_feats, TRUE),
              W |-> Linear(seed, 802, n_units_dec, target_feats, TRUE),
              V |-> Linear(seed, 803, rec_depth * n_units_enc, target_feats, TRUE)]

\* the locals of HARHN.forward(x, y) on entry
HARHNStart(x, y) ==
    [x |-> x, y |-> y, conv |-> 0, h_t_l |-> <<>>, s |-> <<>>, t |-> 0, alpha |-> <<>>,
     d_t |-> <<>>, y_t |-> <<>>, pc |-> "conv", error |-> ""]

\* lines 169-170: one pass of `for conv in range(self.n_convs)`
HARHNConvBody(m, f) ==
    LET after(r) ==
            IF ~r.ok
            THEN [f EXCEPT !.pc = "raised", !.error = r.error]
            ELSE [f EXCEPT !.x = r.x, !.conv = @ + 1,
                           !.pc = IF f.conv + 1 < m.n_convs THEN "conv" ELSE "encode"]
    IN  after(ConvBlockForward(m.convs[f.conv + 1], f.x))

\* lines 171-173: conv_to_enc, the encoder, the zero decoder state
HARHNEncode(m, f) ==
    LET after(r) ==
            IF r.pc # "done"
            THEN [f EXCEPT !.pc = "raised", !.error = r.error]
            ELSE [f EXCEPT !.x = r.preds, !.h_t_l = r.highway_states,
                           !.s = Zeros(Len(r.preds), m.n_units_dec), !.pc = "attend"]
    IN  after(RHNForward(m.RHNEncoder, Linear3(m.conv_to_enc, f.x)))

\* exp(v - max) for the fixed-point v - max = -d <= 0, as an integer weight:
\* 2 ^ ExpBits at d = 0, halved per unit of d, and 0 once it underflows
ExpBelowMax(d) == IF (4 * d) \div SCALE > ExpBits THEN 0 ELSE 2 ^ (ExpBits - (4 * d) \div SCALE)

\* torch.softmax(e, dim) of a 3-D tensor, as exact rationals <<num, den>>:
\* exp(e_i - max) / sum_j exp(e_j - max) over the line through axis `dim`
Softmax(e, dim) ==
    LET line(b, t, o) ==
            IF dim = 0 THEN Tabulate(Len(e), LAMBDA i : e[i][t][o])
            ELSE IF dim = 1 THEN Tabulate(Len(e[b]), LAMBDA i : e[b][i][o])
            ELSE Tabulate(Len(e[b][t]), LAMBDA i : e[b][t][i])
        below(q, m) == Tabulate(Len(q), LAMBDA i : ExpBelowMax(m - q[i]))
        weights(q) == below(q, MaxSeq(q))
        own(b, t, o) == IF dim = 0 THEN b ELSE IF dim = 1 THEN t ELSE o
        share(w, i) == <<w[i], SumSeq(w)>>
    IN  Tabulate(Len(e), LAMBDA b : Tabulate(Len(e[b]), LAMBDA t : Tabulate(Len(e[b][t]), LAMBDA o :
            share(weights(line(b, t, o)), own(b, t, o)))))

\* h_t_l[..., k] for a 0-based k
DepthSlice(h_t_l, k) ==
    Tabulate(Len(h_t_l), LAMBDA b : Tabulate(Len(h_t_l[b]), LAMBDA t :
        Tabulate(Len(h_t_l[b][t]), LAMBDA u : h_t_l[b][t][u][k + 1])))

\* s.unsqueeze(1).repeat(1, T, 1)
Repeat(s, T) == Tabulate(Len(s), LAMBDA b : Tabulate(T, LAMBDA t : s[b]))

Tanh3(x) == Tabulate(Len(x), LAMBDA b : MatTanh(x[b]))
Add3(a, b) == Tabulate(Len(a), LAMBDA i : MatAdd(a[i], b[i]))

\* a slip that normalises over the batch axis
AttentionWeightsOverBatch(m, s, h_t_l, k) ==
    LET h_t_k == DepthSlice(h_t_l, k)
        e_t_k == Linear3(m.v_k[k + 1], Tanh3(Add3(Linear3(m.T_k[k + 1], Repeat(s, m.T)),
                                                  Linear3(m.U_k[k + 1], h_t_k))))
    IN  Softmax(e_t_k, 0)

\* lines 179-183: alpha_t_k = softmax(v_k(tanh(T_k(s_rep) + U_k(h_t_k))), 1)
AttentionWeights(m, s, h_t_l, k) ==
    LET h_t_k == DepthSlice(h_t_l, k)
        e_t_k == Linear3(m.v_k[k + 1], Tanh3(Add3(Linear3(m.T_k[k + 1], Repeat(s, m.T)),
                                                  Linear3(m.U_k[k + 1], h_t_k))))
    IN  Softmax(e_t_k, 1)

\* line 184: d_t_k = torch.sum(h_t_k * alpha_t_k, dim=1), alpha broadcast over
\* the unit axis
Context(h_t_k, alpha_t_k) ==
    Tabulate(Len(h_t_k), LAMBDA b : Tabulate(Len(h_t_k[b][1]), LAMBDA u :
        SumSeq(Tabulate(Len(h_t_k[b]), LAMBDA t :
            (h_t_k[b][t][u] * alpha_t_k[b][t][1][1]) \div alpha_t_k[b][t][1][2]))))

RECURSIVE Cat(_)
\* torch.cat(list, dim=1) of (batch, n) matrices
Cat(q) ==
    IF Len(q) = 1 THEN q[1]
    ELSE LET rest == Cat(Tail(q)) IN Tabulate(Len(q[1]), LAMBDA b : q[1][b] \o rest[b])

\* lines 177-186: d_t, the contexts of depths 0..D-1 concatenated
FusedContext(h_t_l, alpha) ==
    Cat(Tabulate(Len(alpha), LAMBDA k : Context(DepthSlice(h_t_l, k - 1), alpha[k])))

\* lines 175-186: the attention weights of every depth and the fused context
\* d_t, from the decoder state s
HARHNAttend(m, f) ==
    LET after(alpha) ==
            [f EXCEPT !.alpha = alpha, !.d_t = FusedContext(f.h_t_l, alpha), !.pc = "advance"]
    IN  after(Tabulate(m.rec_depth, LAMBDA k : AttentionWeights(m, f.s, f.h_t_l, k - 1)))

\* lines 187-188: y_tilda_t and the decoder cell
HARHNAdvance(m, f) ==
    LET y_tilda_t == MatAdd(LinearForward(m.W_tilda, TimeSlice(f.y, f.t)),
                            LinearForward(m.V_tilda, f.d_t))
        after(r) ==
            IF ~r.ok
            THEN [f EXCEPT !.pc = "raised", !.error = r.error]
            ELSE [f EXCEPT !.s = r.s, !.t = @ + 1,
                           !.pc = IF f.t + 1 < m.T THEN "attend" ELSE "predict"]
    IN  after(RHNCellForward(m.RHNDecoder, y_tilda_t, f.s))

\* a slip that attends once more, from the final state, before the readout
HARHNPredictRecomputed(m, f) ==
    LET readout(g) ==
            [g EXCEPT !.y_t = MatAdd(LinearForward(m.W, g.s), LinearForward(m.V, g.d_t)),
                      !.pc = "done"]
    IN  readout(HARHNAttend(m, f))

\* lines 190-191: y_t = self.W(s) + self.V(d_t)
HARHNPredict(m, f) ==
    [f EXCEPT !.y_t = MatAdd(LinearForward(m.W, f.s), LinearForward(m.V, f.d_t)),
              !.pc = "done"]

RECURSIVE HARHNRun(_, _)
HARHNRun(m, f) ==
    IF f.pc = "conv" THEN HARHNRun(m, HARHNConvBody(m, f))
    ELSE IF f.pc = "encode" THEN HARHNRun(m, HARHNEncode(m, f))
    ELSE IF f.pc = "attend" THEN HARHNRun(m, HARHNAttend(m, f))
    ELSE IF f.pc = "advance" THEN HARHNRun(m, HARHNAdvance(m, f))
    ELSE IF f.pc = "predict" THEN HARHNPredict(m, f)
    ELSE f

\* HARHN.forward as a whole
HARHNForward(m, x, y) == HARHNRun(m, HARHNStart(x, y))

\* ---------------------------------------------------------------- make_model
\* A configuration value is a leaf (its Python literal, as a string) or a
\* dict of leaves (a set of <<name, literal>> pairs).
Leaf(v) == [leaf |-> v, items |-> {}]
Dict(items) == [leaf |-> "", items |-> items]

\* run_model.py lines 9-62
DefaultNNConfig ==
    [nbeats_options |-> Dict({<<"backcast_length", "15">>, <<"forecast_length", "1">>,
                              <<"stack_types", "('generic', 'generic')">>,
                              <<"nb_blocks_per_stack", "2">>, <<"thetas_dim", "(4, 4)">>,
                              <<"share_weights_in_stack", "True">>,
                              <<"hidden_layer_units", "64">>}),
     enc_config |-> Dict({<<"n_h", "20">>, <<"n_s", "20">>, <<"m", "20">>}),
     dec_config |-> Dict({<<"p", "30">>, <<"n_hde0", "30">>, <<"n_sde0", "30">>}),
     tcn_options |-> Dict({<<"nb_filters", "64">>, <<"kernel_size", "2">>, <<"nb_stacks", "1">>,
                           <<"dilations", "[1, 2, 4, 8, 16, 32]">>, <<"padding", "'causal'">>,
                           <<"use_skip_connections", "True">>, <<"dropout_rate", "0.0">>}),
     lr |-> Leaf("0.0001"),
     optimizer |-> Leaf("'adam'"),
     loss |-> Leaf("'mse'"),
     epochs |-> Leaf("40"),
     min_val_loss |-> Leaf("9999"),
     patience |-> Leaf("15"),
     subsequences |-> Leaf("3"),
     lstm_config |-> Dict({<<"lstm_units", "64">>, <<"lstm_act", "'relu'">>,
                           <<"dropout", "0.4">>, <<"rec_dropout", "0.5">>}),
     cnn_config |-> Dict({<<"filters", "64">>, <<"kernel_size", "2">>,
                          <<"activation", "'LeakyRelu'">>, <<"max_pool_size", "2">>}),
     HARHN_config |-> Dict({<<"n_conv_lyrs", "3">>, <<"enc_units", "64">>, <<"dec_units", "64">>})]

\* run_model.py lines 64-76
DefaultDataConfig ==
    [lookback |-> Leaf("15"),
     batch_size |-> Leaf("32"),
     val_fraction |-> Leaf("0.3"),
     CACHEDATA |-> Leaf("True"),
     ignore_nans |-> Leaf("False"),
     inputs |-> Leaf("['tmin', 'tmax', 'slr', 'WTEMP(C)', 'FLOW_OUTcms', 'SED_OUTtons', 'NO3_OUTkg']"),
     outputs |-> Leaf("['obs_chla']")]

\* `if key in config: config[key] = val`
OverwriteIfPresent(config, key, val) ==
    IF key \in DOMAIN config THEN [config EXCEPT ![key] = Leaf(val)] ELSE config

RECURSIVE ApplyKwargs(_, _, _)
\* lines 78-82: `for key, val in kwargs.items()`, kwargs in call order
ApplyKwargs(kwargs, data, nn) ==
    IF kwargs = <<>> THEN [data_config |-> data, nn_config |-> nn]
    ELSE ApplyKwargs(Tail(kwargs),
                     OverwriteIfPresent(data, Head(kwargs)[1], Head(kwargs)[2]),
                     OverwriteIfPresent(nn, Head(kwargs)[1], Head(kwargs)[2]))

\* make_model(**kwargs): (_data_config, _nn_config); the intervals are constant
MakeModel(kwargs) == ApplyKwargs(kwargs, DefaultDataConfig, DefaultNNConfig)

\* ------------------------------------------------------------------- inputs
\* A seed names one input tensor; seed 0 is the all-zero tensor.
GenVal(seed, b, j) ==
    IF seed = 0 THEN 0 ELSE (((seed * 3 + b * 2 + j * 7 + b * j) % 5) - 2) * (SCALE \div 2)

\* a (batch, T, feats) tensor: sample 1 from seed `first`, the others from `rest`
GenBatch(first, rest, batch, T, feats) ==
    Tabulate(batch, LAMBDA b : Tabulate(T, LAMBDA t : Tabulate(feats, LAMBDA f :
        GenVal(IF b = 1 THEN first ELSE rest + b - 2, t + 2 * b, f))))

GenMat(seed, batch, n) == Tabulate(batch, LAMBDA b : Tabulate(n, LAMBDA j : GenVal(seed, b, j)))

Bool == {TRUE, FALSE}

\* -------------------------------------------------------------------- state
VARIABLES
    phase,       \* position of the scenario being run
    cell,        \* an RHNCell built with use_hsg = True
    cell_plain,  \* an RHNCell with the same parameters and use_hsg = False
    cell_in,     \* the arguments (x, s) of the last RHNCell.forward
    cell_out,    \* what cell.forward returned
    plain_out,   \* what cell_plain.forward returned
    hsg_call,    \* the last HSGLayer.forward: arguments, gate g, result
    rhn,         \* an RHN encoder
    enc,         \* the locals of rhn.forward(x): x, t, s, preds, highway_states
    enc_other,   \* the same for a batch that differs from x outside sample 1
    harhn,       \* a HARHN model
    fwd,         \* the locals of harhn.forward(x, y)
    dec_trace,   \* history: per decoder step, the state attended from, d_t, the new state
    ctor,        \* the class and arguments of the last constructor call
    obj,         \* the object it built, or the error it raised
    call,        \* the outcome of obj.forward
    kwargs,      \* the keyword arguments of a make_model call, in call order
    configs      \* what make_model returned: data_config and nn_config

cellVars == <<cell, cell_plain, cell_in, cell_out, plain_out, hsg_call>>

rhnVars == <<rhn, enc, enc_other>>

harhnVars == <<harhn, fwd, dec_trace>>

ctorVars == <<ctor, obj, call>>

mmVars == <<kwargs, configs>>

vars == <<phase, cellVars, rhnVars, harhnVars, ctorVars, mmVars>>

NoCall == [done |-> FALSE]

IdleCell ==
    /\ cell = NoCall
    /\ cell_plain = NoCall
    /\ cell_in = NoCall
    /\ cell_out = NoCall
    /\ plain_out = NoCall
    /\ hsg_call = NoCall

IdleHARHN ==
    /\ harhn = NoCall
    /\ fwd = NoCall
    /\ dec_trace = <<>>

IdleCtor ==
    /\ ctor = NoCall
    /\ obj = NoCall
    /\ call = NoCall

IdleMakeModel ==
    /\ kwargs = <<>>
    /\ configs = NoCall

IdleRHN ==
    /\ rhn = NoCall
    /\ enc = NoCall
    /\ enc_other = NoCall

\* ------------------------------------------------- RHNCell and HSGLayer runs
InitCell ==
    /\ phase = "new"
    /\ IdleCell
    /\ IdleRHN
    /\ IdleHARHN
    /\ IdleCtor
    /\ IdleMakeModel

\* RHNCell(in_feats, n_units, rec_depth, couple_gates, use_hsg, init_gates_closed),
\* once with use_hsg and once without, from the same parameter draw
NewCells ==
    /\ phase = "new"
    /\ \E in_feats \in 1..MaxFeats, n_units \in 1..MaxUnits, rec_depth \in 1..MaxDepth,
          couple_gates \in Bool, closed \in Bool, seed \in 0..MaxParamSeed :
          /\ cell' = NewRHNCell(seed, 0, in_feats, n_units, rec_depth, couple_gates, TRUE, closed)
          /\ cell_plain' = NewRHNCell(seed, 0, in_feats, n_units, rec_depth, couple_gates, FALSE, closed)
    /\ phase' = "built"
    /\ UNCHANGED <<rhnVars, harhnVars, ctorVars, mmVars, cell_in, cell_out, plain_out, hsg_call>>

\* cell(x, s) and cell_plain(x, s) on the same x and s
CellForward ==
    /\ phase = "built"
    /\ \E batch \in 1..MaxBatch, xseed \in 0..MaxInputSeed, sseed \in 0..MaxInputSeed :
          LET x == GenMat(xseed, batch, cell.in_feats)
              s == GenMat(sseed + 1, batch, cell.n_units)
          IN  /\ cell_in' = [done |-> TRUE, x |-> x, s |-> s]
              /\ cell_out' = RHNCellForward(cell, x, s)
              /\ plain_out' = RHNCellForward(cell_plain, x, s)
    /\ phase' = "ran"
    /\ UNCHANGED <<rhnVars, harhnVars, ctorVars, mmVars, cell, cell_plain, hsg_call>>

\* cell.HSG(s_l_t, s_prime_tm1) called on its own
HSGLayerForward ==
    /\ phase = "built"
    /\ \E batch \in 1..MaxBatch, lseed \in 0..MaxInputSeed, pseed \in 0..MaxInputSeed :
          LET s_l_t == GenMat(lseed, batch, cell.n_units)
              s_prime_tm1 == GenMat(2 * pseed, batch, cell.n_units)
              g == HSGGate(cell.HSG, s_l_t, s_prime_tm1)
          IN  hsg_call' = [done |-> TRUE, s_l_t |-> s_l_t, s_prime_tm1 |-> s_prime_tm1,
                           g |-> g, out |-> HSGBlend(g, s_l_t, s_prime_tm1)]
    /\ phase' = "gated"
    /\ UNCHANGED <<rhnVars, harhnVars, ctorVars, mmVars, cell, cell_plain, cell_in, cell_out, plain_out>>

NextCell == NewCells \/ CellForward \/ HSGLayerForward

SpecCell == InitCell /\ [][NextCell]_vars

AllZero(m) == \A i \in 1..Len(m) : \A j \in 1..Len(m[i]) : m[i][j] = 0

\* C4: with HSG enabled the cell returns a per-depth sequence of length D whose
\* entries 0..D-2 are those of the HSG-disabled run on the same x, s and
\* parameters; only the last entry is replaced, by HSG(candidate, s_prev), and
\* that entry is the state the cell returns.
C4_HSGReplacesOnlyLast ==
    phase = "ran" =>
        LET D == cell.rec_depth
        IN  /\ cell_out.ok /\ plain_out.ok
            /\ Len(cell_out.preds) = D
            /\ Len(plain_out.preds) = D
            /\ \A l \in 1..(D - 1) : cell_out.preds[l] = plain_out.preds[l]
            /\ plain_out.s = plain_out.preds[D]
            /\ cell_out.preds[D] = HSGForward(cell.HSG, plain_out.s, cell_in.s)
            /\ cell_out.s = cell_out.preds[D]

\* a run of depth >= 2 in which the gate changed the last entry
C4_Witness ==
    /\ phase = "ran"
    /\ cell.rec_depth >= 2
    /\ cell_out.preds[cell.rec_depth] # plain_out.preds[cell.rec_depth]
    /\ cell_out.preds[1] = plain_out.preds[1]

\* the blend of HSGLayer.forward written out: g*s_prev + (1 - g)*s_l with
\* g = sigmoid(W_R s_prev + W_F s_l)
HSGCallIsBlend ==
    /\ hsg_call.g = MatSigmoid(MatAdd(LinearForward(cell.HSG.W_R, hsg_call.s_prime_tm1),
                                      LinearForward(cell.HSG.W_F, hsg_call.s_l_t)))
    /\ \A b \in 1..Len(hsg_call.out) : \A i \in 1..Len(hsg_call.out[b]) :
          hsg_call.out[b][i] = FxMul(hsg_call.g[b][i], hsg_call.s_prime_tm1[b][i])
                               + FxMul(SCALE - hsg_call.g[b][i], hsg_call.s_l_t[b][i])

\* init_gates_closed: the gate is at its closed value on zero inputs
HSGStartsClosed ==
    (/\ \A i \in 1..cell.n_units : cell.HSG.W_F.b[i] = ClosedBias
     /\ AllZero(hsg_call.s_l_t) /\ AllZero(hsg_call.s_prime_tm1))
    => AllZero(hsg_call.g)

\* C7 as stated: the output is g*s_prev + (1-g)*s_l, the gate starts closed,
\* and with the gate closed (g = 0) the output is the previous state s_prev.
C7_ClosedGateYieldsPrev ==
    phase = "gated" =>
        /\ HSGCallIsBlend
        /\ HSGStartsClosed
        /\ AllZero(hsg_call.g) => hsg_call.out = hsg_call.s_prime_tm1

\* C7 amended: the output is g*s_prev + (1-g)*s_l, the gate starts closed, and
\* with the gate closed (g = 0) the output is the current-layer state s_l.
C7_ClosedGateYieldsCurrent ==
    phase = "gated" =>
        /\ HSGCallIsBlend
        /\ HSGStartsClosed
        /\ AllZero(hsg_call.g) => hsg_call.out = hsg_call.s_l_t

\* a closed gate between two different states
C7_Witness ==
    /\ phase = "gated"
    /\ AllZero(hsg_call.g)
    /\ hsg_call.s_l_t # hsg_call.s_prime_tm1
    /\ hsg_call.out = hsg_call.s_l_t

\* --------------------------------------------------------------- RHN.forward
\* An encoder and two batches that agree on sample 1.
InitRHN ==
    /\ phase = "encode"
    /\ IdleCell
    /\ IdleHARHN
    /\ IdleCtor
    /\ IdleMakeModel
    /\ \E in_feats \in 1..MaxFeats, n_units \in 1..MaxUnits, rec_depth \in 1..MaxDepth,
          couple_gates \in Bool, use_hsg \in Bool, use_batch_norm \in Bool,
          seed \in 0..MaxParamSeed, batch \in 1..MaxBatch, T \in 1..MaxLookback,
          first \in 0..MaxInputSeed :
          /\ rhn = NewRHN(seed, 0, in_feats, n_units, rec_depth, couple_gates, use_hsg,
                          FALSE, use_batch_norm)
          /\ enc = RHNStart(rhn, GenBatch(first, first + 1, batch, T, in_feats))
          /\ enc_other = RHNStart(rhn, GenBatch(first, first + 2, batch, T, in_feats))

\* one timestep of the loop, on both batches
RHNStep ==
    /\ phase = "encode"
    /\ enc.pc = "loop"
    /\ enc' = RHNLoopBody(rhn, enc)
    /\ enc_other' = RHNLoopBody(rhn, enc_other)
    /\ UNCHANGED <<phase, rhn, cellVars, harhnVars, ctorVars, mmVars>>

\* the code after the loop, on both batches
RHNFinish ==
    /\ phase = "encode"
    /\ enc.pc = "stack"
    /\ enc' = RHNReturn(rhn, enc)
    /\ enc_other' = RHNReturn(rhn, enc_other)
    /\ UNCHANGED <<phase, rhn, cellVars, harhnVars, ctorVars, mmVars>>

NextRHN == RHNStep \/ RHNFinish

SpecRHN == InitRHN /\ [][NextRHN]_vars

EncBatch == Len(enc.x)
EncLookback == Len(enc.x[1])

\* the two tensors RHN.forward returns are indexed alike: the state of the
\* last depth at (b, t, u) is the final state at (b, t, u)
HighwayLastDepthIsOut ==
    \A b \in 1..EncBatch : \A t \in 1..EncLookback : \A u \in 1..rhn.n_units :
        enc.highway_states[b][t][u][rhn.rec_depth] = enc.preds[b][t][u]

\* C2 as stated: the per-depth state tensor returned by RHN.forward has shape
\* (batch, units, lookback, recurrence_depth).
C2_ShapeUnitsBeforeLookback ==
    enc.pc = "done" =>
        Shape4(enc.highway_states) = <<EncBatch, rhn.n_units, EncLookback, rhn.rec_depth>>

\* C2 amended: the per-depth state tensor returned by RHN.forward has shape
\* (batch, lookback, units, recurrence_depth), in that axis order.
C2_ShapeLookbackBeforeUnits ==
    enc.pc = "done" =>
        /\ Shape4(enc.highway_states) = <<EncBatch, EncLookback, rhn.n_units, rhn.rec_depth>>
        /\ Shape3(enc.preds) = <<EncBatch, EncLookback, rhn.n_units>>
        /\ HighwayLastDepthIsOut

\* a finished forward pass whose lookback and unit count differ
C2_Witness ==
    /\ phase = "encode"
    /\ enc.pc = "done"
    /\ EncLookback # rhn.n_units
    /\ EncBatch # EncLookback
    /\ Shape4(enc.highway_states) = <<EncBatch, EncLookback, rhn.n_units, rhn.rec_depth>>

\* sample 1 of the two batches has the same states so far
SampleOneAgrees ==
    /\ enc.pc = enc_other.pc
    /\ enc.pc \in {"loop", "stack"} =>
          /\ enc.s[1] = enc_other.s[1]
          /\ \A t \in 1..Len(enc.preds) :
                /\ enc.preds[t][1] = enc_other.preds[t][1]
                /\ \A d \in 1..rhn.rec_depth :
                      enc.highway_states[t][d][1] = enc_other.highway_states[t][d][1]
    /\ enc.pc = "done" =>
          /\ enc.preds[1] = enc_other.preds[1]
          /\ enc.highway_states[1] = enc_other.highway_states[1]

\* C8 as stated: for every encoder configuration, use_batch_norm included, two
\* batches that agree on a sample give that sample the same final and
\* per-depth states at every timestep.
C8_SamplesIndependent ==
    phase = "encode" => SampleOneAgrees

\* C8 amended: with use_batch_norm disabled, two batches that agree on a sample
\* give that sample the same final and per-depth states at every timestep.
C8_SamplesIndependentWithoutBatchNorm ==
    (phase = "encode" /\ ~rhn.use_batch_norm) => SampleOneAgrees

\* a finished pass without batch norm over two batches whose second samples
\* differ, and so do the second samples' states
C8_Witness ==
    /\ phase = "encode"
    /\ ~rhn.use_batch_norm
    /\ enc.pc = "done"
    /\ EncBatch >= 2
    /\ enc.x[1] = enc_other.x[1]
    /\ enc.x[2] # enc_other.x[2]
    /\ enc.preds[2] # enc_other.preds[2]
    /\ enc.preds[1] = enc_other.preds[1]

\* ------------------------------------------------------------- HARHN.forward
\* the conv loop of HARHN.forward
HARHNConvStep ==
    /\ phase = "forward"
    /\ fwd.pc = "conv"
    /\ fwd' = HARHNConvBody(harhn, fwd)
    /\ UNCHANGED <<phase, harhn, dec_trace, cellVars, rhnVars, ctorVars, mmVars>>

\* projection and encoder
HARHNEncodeStep ==
    /\ phase = "forward"
    /\ fwd.pc = "encode"
    /\ fwd' = HARHNEncode(harhn, fwd)
    /\ UNCHANGED <<phase, harhn, dec_trace, cellVars, rhnVars, ctorVars, mmVars>>

\* first half of a decoder step: attention from the current state
HARHNAttendStep ==
    /\ phase = "forward"
    /\ fwd.pc = "attend"
    /\ fwd' = HARHNAttend(harhn, fwd)
    /\ dec_trace' = Append(dec_trace, [t |-> fwd.t, s_before |-> fwd.s, d_t |-> fwd'.d_t,
                                        s_after |-> <<>>])
    /\ UNCHANGED <<phase, harhn, cellVars, rhnVars, ctorVars, mmVars>>

\* second half of a decoder step: the decoder cell
HARHNAdvanceStep ==
    /\ phase = "forward"
    /\ fwd.pc = "advance"
    /\ fwd' = HARHNAdvance(harhn, fwd)
    /\ dec_trace' = [dec_trace EXCEPT ![Len(dec_trace)].s_after = fwd'.s]
    /\ UNCHANGED <<phase, harhn, cellVars, rhnVars, ctorVars, mmVars>>

\* the readout after the loop
HARHNPredictStep ==
    /\ phase = "forward"
    /\ fwd.pc = "predict"
    /\ fwd' = HARHNPredict(harhn, fwd)
    /\ UNCHANGED <<phase, harhn, dec_trace, cellVars, rhnVars, ctorVars, mmVars>>

\* HARHN(1, lookback, in_feats, target_feats, n_units_enc, n_units_dec,
\* enc_input_size, rec_depth, n_filters=feats) with the default filter size, and
\* a batch (x, y); deeper conv stacks are run by InitConv
InitHARHN ==
    /\ phase = "forward"
    /\ IdleCell
    /\ IdleRHN
    /\ IdleCtor
    /\ IdleMakeModel
    /\ dec_trace = <<>>
    /\ \E lookback \in 1..MaxLookback,
          feats \in 1..MaxFeats, n_units_enc \in 1..MaxUnits, n_units_dec \in 1..MaxUnits,
          rec_depth \in 1..MaxDepth, seed \in 0..MaxParamSeed, batch \in 1..MaxBatch,
          first \in 0..MaxInputSeed :
          /\ harhn = NewHARHN(seed, 1, lookback, feats, feats, n_units_enc,
                              n_units_dec, feats, rec_depth, feats, DefaultFilterSize)
          /\ fwd = HARHNStart(GenBatch(first, first + 1, batch, lookback, feats),
                              GenBatch(first + 1, first, batch, lookback, feats))

NextHARHN ==
    \/ HARHNConvStep
    \/ HARHNEncodeStep
    \/ HARHNAttendStep
    \/ HARHNAdvanceStep
    \/ HARHNPredictStep

SpecHARHN == InitHARHN /\ [][NextHARHN]_vars

RECURSIVE GCD(_, _)
GCD(a, b) == IF b = 0 THEN a ELSE GCD(b, a % b)

\* the sum of two rationals <<num, den>>, in lowest terms
RatAdd(a, b) ==
    LET n == a[1] * b[2] + b[1] * a[2]
        d == a[2] * b[2]
    IN  <<n \div GCD(n, d), d \div GCD(n, d)>>

RECURSIVE RatSum(_)
RatSum(q) == IF q = <<>> THEN <<0, 1>> ELSE RatAdd(Head(q), RatSum(Tail(q)))

FwdBatch == Len(fwd.y)

\* C3: at every decoder timestep, for every depth k and every batch element,
\* the attention weights alpha_k are non-negative and sum to 1 along the
\* encoder-timestep axis, each depth on its own.
C3_AttentionIsDistributionOverTime ==
    (phase = "forward" /\ fwd.pc \in {"advance", "attend", "predict", "done"} /\ fwd.alpha # <<>>) =>
        /\ Len(fwd.alpha) = harhn.rec_depth
        /\ \A k \in 1..harhn.rec_depth :
              /\ Shape3(fwd.alpha[k]) = <<FwdBatch, harhn.T, 1>>
              /\ \A b \in 1..FwdBatch :
                    /\ \A t \in 1..harhn.T :
                          fwd.alpha[k][b][t][1][1] >= 0 /\ fwd.alpha[k][b][t][1][2] > 0
                    /\ RatSum(Tabulate(harhn.T, LAMBDA t : fwd.alpha[k][b][t][1])) = <<1, 1>>

\* weights over two or more timesteps and samples that are not uniform
C3_Witness ==
    /\ phase = "forward"
    /\ fwd.pc = "advance"
    /\ fwd.t >= 1
    /\ harhn.T >= 2
    /\ FwdBatch >= 2
    /\ harhn.rec_depth >= 2
    /\ \E k \in 1..harhn.rec_depth : \E b \in 1..FwdBatch :
          fwd.alpha[k][b][1][1] # fwd.alpha[k][b][2][1]

\* the fused context HARHN.forward computes from decoder state s
ContextFrom(s) ==
    FusedContext(fwd.h_t_l,
                 Tabulate(harhn.rec_depth, LAMBDA k : AttentionWeights(harhn, s, fwd.h_t_l, k - 1)))

\* C10: the decoder runs exactly T steps, t = 0..T-1, from a zero state; the
\* context of step t is computed from the state left by step t-1 over all T
\* encoder timesteps at every depth, then the cell advances; the prediction
\* combines the state after step T-1 with the context computed during step T-1.
C10_DecoderOrder ==
    (phase = "forward" /\ fwd.pc \in {"attend", "advance", "predict", "done"}) =>
        /\ Len(dec_trace) = (IF fwd.pc = "advance" THEN fwd.t + 1 ELSE fwd.t)
        /\ fwd.t <= harhn.T
        /\ Shape4(fwd.h_t_l) = <<FwdBatch, harhn.T, harhn.n_units_enc, harhn.rec_depth>>
        /\ \A i \in 1..Len(dec_trace) :
              /\ dec_trace[i].t = i - 1
              /\ dec_trace[i].s_before =
                    (IF i = 1 THEN Zeros(FwdBatch, harhn.n_units_dec) ELSE dec_trace[i - 1].s_after)
              /\ dec_trace[i].d_t = ContextFrom(dec_trace[i].s_before)
              /\ \A b \in 1..FwdBatch :
                    Len(dec_trace[i].d_t[b]) = harhn.rec_depth * harhn.n_units_enc
        /\ fwd.pc \in {"predict", "done"} =>
              /\ fwd.t = harhn.T
              /\ Len(dec_trace) = harhn.T
              /\ fwd.s = dec_trace[harhn.T].s_after
              /\ fwd.d_t = dec_trace[harhn.T].d_t
        /\ fwd.pc = "done" =>
              fwd.y_t = MatAdd(LinearForward(harhn.W, dec_trace[harhn.T].s_after),
                               LinearForward(harhn.V, dec_trace[harhn.T].d_t))

\* a finished pass of two or more steps whose last context is not the one the
\* final state would give, and whose prediction would differ with it
C10_Witness ==
    /\ phase = "forward"
    /\ fwd.pc = "done"
    /\ harhn.T >= 2
    /\ dec_trace[harhn.T].s_before # dec_trace[harhn.T].s_after
    /\ fwd.d_t # ContextFrom(fwd.s)
    /\ fwd.y_t # MatAdd(LinearForward(harhn.W, fwd.s), LinearForward(harhn.V, ContextFrom(fwd.s)))

\* --------------------------------------------------------- the ConvBlock stack
\* HARHN models over every lookback and kernel size, run through the conv loop
InitConv ==
    /\ phase = "forward"
    /\ IdleCell
    /\ IdleRHN
    /\ IdleCtor
    /\ IdleMakeModel
    /\ dec_trace = <<>>
    /\ \E n_conv_layers \in 1..MaxConvLayers, lookback \in 1..MaxLookback,
          in_feats \in 1..MaxFeats, n_filters \in 1..MaxFeats, filter_size \in 1..MaxKernel,
          seed \in 0..MaxParamSeed, batch \in 1..MaxBatch, first \in 0..MaxInputSeed :
          /\ harhn = NewHARHN(seed, n_conv_layers, lookback, in_feats, 1, 1, 1, 1, 1,
                              n_filters, filter_size)
          /\ fwd = HARHNStart(GenBatch(first, first + 1, batch, lookback, in_feats),
                              GenBatch(first + 1, first, batch, lookback, 1))

NextConv == HARHNConvStep

SpecConv == InitConv /\ [][NextConv]_vars

\* C5 as stated: the padding a ConvBlock passes to its convolution is
\* floor(((T-1) + (kernel-1) - T)/2).
C5_PaddingAsStated ==
    phase = "forward" =>
        \A i \in 1..harhn.n_convs :
            harhn.convs[i].padding =
                ((harhn.T - 1) + (harhn.convs[i].kernel - 1) - harhn.T) \div 2

\* C5 amended: for every lookback T and kernel size >= 1, the padding a
\* ConvBlock passes to its convolution is floor(((T-1) + 1 + (kernel-1) - T)/2),
\* that is floor((kernel-1)/2).
C5_PaddingHalfKernel ==
    phase = "forward" =>
        \A i \in 1..harhn.n_convs :
            /\ harhn.convs[i].padding =
                  ((harhn.T - 1) + 1 + (harhn.convs[i].kernel - 1) - harhn.T) \div 2
            /\ harhn.convs[i].padding = (harhn.convs[i].kernel - 1) \div 2

\* a block with an odd kernel of 3 or more has run with padding (kernel-1)/2
C5_Witness ==
    /\ phase = "forward"
    /\ fwd.conv >= 1
    /\ harhn.convs[1].kernel >= 3
    /\ harhn.convs[1].kernel % 2 = 1
    /\ 2 * harhn.convs[1].padding = harhn.convs[1].kernel - 1

\* C6: for every lookback T >= 1 and kernel size >= 1, no block fails and every
\* block returns exactly T timesteps, so the encoder is fed T timesteps.
C6_EveryBlockKeepsLookback ==
    phase = "forward" =>
        /\ fwd.pc # "raised"
        /\ fwd.conv >= 1 => Len(fwd.x[1]) = harhn.T

\* -------------------------------------------------- construction, then forward
InitConfig ==
    /\ phase = "config"
    /\ IdleCell
    /\ IdleRHN
    /\ IdleHARHN
    /\ IdleCtor
    /\ IdleMakeModel

\* HARHN(n_conv_layers, lookback, ..., rec_depth=rec_depth)
ConstructHARHN ==
    /\ phase = "config"
    /\ \E n_conv_layers \in -1..MaxConvLayers, rec_depth \in -1..MaxDepth,
          lookback \in 1..MaxLookback, seed \in 0..MaxParamSeed :
          /\ ctor' = [cls |-> "HARHN", rec_depth |-> rec_depth,
                      n_conv_layers |-> n_conv_layers, lookback |-> lookback]
          /\ obj' = NewHARHN(seed, n_conv_layers, lookback, 1, 1, MaxUnits, MaxUnits, 1,
                             rec_depth, 1, DefaultFilterSize)
    /\ phase' = "constructed"
    /\ UNCHANGED <<call, cellVars, rhnVars, harhnVars, mmVars>>

\* RHN(in_feats, out_feats, n_units, rec_depth, ...)
ConstructRHN ==
    /\ phase = "config"
    /\ \E rec_depth \in -1..MaxDepth, use_hsg \in Bool, couple_gates \in Bool,
          seed \in 0..MaxParamSeed :
          /\ ctor' = [cls |-> "RHN", rec_depth |-> rec_depth, n_conv_layers |-> 1,
                      lookback |-> MaxLookback]
          /\ obj' = NewRHN(seed, 0, 1, MaxUnits, rec_depth, couple_gates, use_hsg, FALSE, FALSE)
    /\ phase' = "constructed"
    /\ UNCHANGED <<call, cellVars, rhnVars, harhnVars, mmVars>>

\* RHNCell(in_feats, n_units, rec_depth, ...): the constructor checks nothing
ConstructRHNCell ==
    /\ phase = "config"
    /\ \E rec_depth \in -1..MaxDepth, use_hsg \in Bool, couple_gates \in Bool,
          seed \in 0..MaxParamSeed :
          /\ ctor' = [cls |-> "RHNCell", rec_depth |-> rec_depth, n_conv_layers |-> 1,
                      lookback |-> 1]
          /\ obj' = [ok |-> TRUE, error |-> "",
                     cell |-> NewRHNCell(seed, 0, 1, MaxUnits, rec_depth, couple_gates,
                                         use_hsg, FALSE)]
    /\ phase' = "constructed"
    /\ UNCHANGED <<call, cellVars, rhnVars, harhnVars, mmVars>>

\* obj.forward on a batch, for an object whose constructor returned
Forward ==
    /\ phase = "constructed"
    /\ obj.ok
    /\ \E batch \in 1..MaxBatch, first \in 0..MaxInputSeed :
          LET x == GenBatch(first, first + 1, batch, ctor.lookback, 1)
              y == GenBatch(first + 1, first, batch, ctor.lookback, 1)
              returned(r) == [done |-> TRUE, ok |-> r.pc = "done", error |-> r.error]
              cell_returned(r) == [done |-> TRUE, ok |-> r.ok, error |-> r.error]
          IN  call' = IF ctor.cls = "HARHN" THEN returned(HARHNForward(obj, x, y))
                      ELSE IF ctor.cls = "RHN" THEN returned(RHNForward(obj, x))
                      ELSE cell_returned(RHNCellForward(obj.cell, TimeSlice(x, 0),
                                                        Zeros(batch, MaxUnits)))
    /\ phase' = "called"
    /\ UNCHANGED <<ctor, obj, cellVars, rhnVars, harhnVars, mmVars>>

NextConfig == ConstructHARHN \/ ConstructRHN \/ ConstructRHNCell \/ Forward

SpecConfig == InitConfig /\ [][NextConfig]_vars

\* the configuration the constructor was given is not a valid one
InvalidConfig == ctor.rec_depth <= 0 \/ ctor.n_conv_layers <= 0

\* C1: for HARHN, RHN and RHNCell alike, construction fails whenever the
\* recurrence depth or the conv-layer count is not positive, so no object with
\* such a configuration reaches a forward pass.
C1_ValidationIsEager ==
    phase = "called" => ~InvalidConfig

\* ------------------------------------------------------------ make_model call
\* the names make_model is called with: top-level keys, per-model parameters,
\* and a name that matches nothing
KwargNames ==
    {"lookback", "batch_size", "lr", "epochs", "lstm_units", "dropout", "rec_dropout",
     "kernel_size", "no_such_parameter"}

KwargValues == {"7", "0.3"}

MaxKwargs == 2

DistinctKeys(q) == \A i, j \in 1..Len(q) : i # j => q[i][1] # q[j][1]

InitMakeModel ==
    /\ phase = "kwargs"
    /\ IdleCell
    /\ IdleRHN
    /\ IdleHARHN
    /\ IdleCtor
    /\ configs = NoCall
    /\ \E n \in 0..MaxKwargs :
          /\ kwargs \in [1..n -> KwargNames \X KwargValues]
          /\ DistinctKeys(kwargs)

\* data_config, nn_config, total_intervals = make_model(**kwargs)
CallMakeModel ==
    /\ phase = "kwargs"
    /\ configs' = MakeModel(kwargs)
    /\ phase' = "made"
    /\ UNCHANGED <<kwargs, cellVars, rhnVars, harhnVars, ctorVars>>

NextMakeModel == CallMakeModel

SpecMakeModel == InitMakeModel /\ [][NextMakeModel]_vars

\* the names of the default parameters: top-level keys and the names inside
\* the per-model dicts
TopLevelNames == DOMAIN DefaultDataConfig \cup DOMAIN DefaultNNConfig

NestedNames == {p[1] : p \in UNION {DefaultNNConfig[k].items : k \in DOMAIN DefaultNNConfig}}

\* parameter `name` has value `val` wherever the returned configs hold it
HasValue(name, val) ==
    /\ name \in DOMAIN configs.data_config => configs.data_config[name] = Leaf(val)
    /\ name \in DOMAIN configs.nn_config => configs.nn_config[name] = Leaf(val)
    /\ \A k \in DOMAIN DefaultNNConfig :
          (\E p \in DefaultNNConfig[k].items : p[1] = name) =>
              <<name, val>> \in configs.nn_config[k].items

\* C9: every default parameter, top-level or per-model, is overwritten by the
\* keyword of its name; keywords that match nothing leave the defaults.
C9_EveryParameterOverwritten ==
    phase = "made" =>
        /\ \A i \in 1..Len(kwargs) :
              kwargs[i][1] \in TopLevelNames \cup NestedNames => HasValue(kwargs[i][1], kwargs[i][2])
        /\ (\A i \in 1..Len(kwargs) : kwargs[i][1] \notin TopLevelNames \cup NestedNames) =>
              (configs.data_config = DefaultDataConfig /\ configs.nn_config = DefaultNNConfig)

====
